---- MODULE Spec2Model ----
(***************************************************************************)
(* State-machine model of backend/rag_engine.py (class RAGEngine): the     *)
(* corpus loader, the flat L2 index, its pickle artifact and search.       *)
(* A text is a sequence of code points (integers).                         *)
(***************************************************************************)
EXTENDS Integers, Sequences, FiniteSets, TLC

VARIABLES
    docs,         \* the directory listing of doc_folder, in enumeration order
    index,        \* self.index: None or a flat L2 index [d, xb]
    text_chunks,  \* self.text_chunks
    id_to_text,   \* self.id_to_text: a dict, here a function on 0..n-1
    artifact,     \* backend/vectorstore.pkl: [exists, bytes]
    loads,        \* number of load_and_split_docs calls made on this engine
    ret,          \* the last call and its outcome: [op, query, top_k, err, val]
    saved,        \* history: the (index, dict) in memory of the engine whose
                  \* embed_and_store last wrote the artifact in full
    prior,        \* history: whether the engine held an index, and of how many
                  \* vectors, when the last call began
    app,          \* the API process (feature_engine.py): start-up and last request
    calls,        \* search calls in progress, one per thread
    uploads,      \* names of the files in settings.UPLOAD_DIR
    http,         \* the last request a route handler of main.py answered
    clients,      \* RateLimitMiddleware.clients: timestamps kept per client
    now,          \* time.time(), in seconds
    admitted,     \* history: timestamps of the requests forwarded, per client
    dispatched,   \* the last request RateLimitMiddleware.dispatch handled
    writers       \* processes inside embed_and_store's write of the artifact

vars == <<docs, index, text_chunks, id_to_text, artifact, loads, ret, saved,
          prior, app, calls, uploads, http, clients, now, admitted,
          dispatched, writers>>

\* The route handlers' state, and the state of the middleware and of the
\* writing processes.
web == <<uploads, http>>
beyond == <<clients, now, admitted, dispatched, writers>>

\* What the engine's own operations leave alone.
others == <<app, calls, uploads, http, clients, now, admitted, dispatched,
            writers>>

----------------------------------------------------------------------------
(* Bounds of the model *)

MaxFiles == 2   \* files in the folder
MaxLoads == 2   \* load_and_split_docs calls per engine
MaxK     == 3   \* largest top_k passed to search

(* Program constants *)

ChunkSize == 300   \* rag_engine.py:22

NoErr == "none"

----------------------------------------------------------------------------
(* Inputs *)

\* A text of n distinct code points starting after base b.
Doc(b, n) == [p \in 1..n |-> b + p]

\* The text files a folder may hold. Each is a distinct directory entry.
FilePool ==
    { [name |-> "a", ext |-> "txt", utf8 |-> TRUE, text |-> Doc(1000, 650)],
      [name |-> "b", ext |-> "txt", utf8 |-> TRUE, text |-> Doc(2000, 300)],
      [name |-> "e", ext |-> "txt", utf8 |-> TRUE, text |-> <<>>] }

\* A file the glob pattern does not match.
Notes == [name |-> "n", ext |-> "md", utf8 |-> TRUE, text |-> Doc(3000, 5)]

\* A matched file whose bytes are not UTF-8; text is what a decoder that
\* skipped the bad bytes would read.
Broken == [name |-> "x", ext |-> "txt", utf8 |-> FALSE, text |-> Doc(4000, 5)]

RECURSIVE ListingsOf(_)
\* All listings of exactly n distinct files.
ListingsOf(n) ==
    IF n = 0 THEN { <<>> }
    ELSE { Append(s, f) : s \in ListingsOf(n - 1), f \in FilePool } \
         { Append(s, s[i]) : s \in ListingsOf(n - 1), i \in 1..(n - 1) }

\* Folders of up to MaxFiles text files, folders that also hold Notes, and
\* folders that hold Broken before or after a text file.
Folders ==
    UNION { ListingsOf(n) : n \in 0..MaxFiles }
    \cup { <<Notes>> \o s : s \in ListingsOf(1) }
    \cup { <<Broken>> \o s : s \in ListingsOf(1) }
    \cup { s \o <<Broken>> : s \in ListingsOf(1) }

Queries == { Doc(1000, 4), Doc(2000, 300) }

----------------------------------------------------------------------------
(* Pure helpers *)

RECURSIVE Concat(_)
\* Concatenation of a sequence of sequences.
Concat(ss) == IF ss = <<>> THEN <<>> ELSE Head(ss) \o Concat(Tail(ss))

RECURSIVE ConcatTexts(_)
\* The texts of a sequence of files, concatenated.
ConcatTexts(files) ==
    IF files = <<>> THEN <<>> ELSE Head(files).text \o ConcatTexts(Tail(files))

\* Python slice text[i:j] for 0 <= i <= j (0-based, clipped at len).
Slice(text, i, j) ==
    SubSeq(text, i + 1, IF j < Len(text) THEN j ELSE Len(text))

\* Path(doc_folder).glob("*.txt")
RECURSIVE Glob(_)
Glob(listing) ==
    IF listing = <<>> THEN <<>>
    ELSE (IF Head(listing).ext = "txt" THEN <<Head(listing)>> ELSE <<>>)
         \o Glob(Tail(listing))

\* Mutant of ChunksOf: the slice is one character short, text[i:i+299].
ChunksOf_narrow(text) ==
    LET starts == { i \in 0..(Len(text) - 1) : i % ChunkSize = 0 }
        n      == Cardinality(starts)
    IN  [c \in 1..n |->
            Slice(text, (c - 1) * ChunkSize, (c - 1) * ChunkSize + ChunkSize - 1)]

\* [text[i:i+300] for i in range(0, len(text), 300)]
ChunksOf(text) ==
    LET starts == { i \in 0..(Len(text) - 1) : i % ChunkSize = 0 }
        n      == Cardinality(starts)
    IN  [c \in 1..n |-> Slice(text, (c - 1) * ChunkSize, (c - 1) * ChunkSize + ChunkSize)]

\* Mutant of ExtendAll: the files are joined first and chunked as one text.
ExtendAll_joined(chunks, files) == chunks \o ChunksOf(ConcatTexts(files))

RECURSIVE ExtendAll(_, _)
\* The loop of load_and_split_docs over the matched files.  f.read() raises
\* on the first file that is not UTF-8 and the loop ends there.
ExtendAll(chunks, files) ==
    IF files = <<>> THEN chunks
    ELSE IF ~Head(files).utf8 THEN chunks
    ELSE ExtendAll(chunks \o ChunksOf(Head(files).text), Tail(files))

\* f.read() succeeds on every file of the sequence.
AllDecodable(files) == \A i \in 1..Len(files) : files[i].utf8

----------------------------------------------------------------------------
(* The embedding model (module-level `model`, rag_engine.py:7).  The real  *)
(* model is a pretrained network; here a deterministic stub that maps      *)
(* different texts to equal vectors often enough for ties to occur.        *)

Encode(text) ==
    << IF text = <<>> THEN 0 ELSE text[1] \div 1000, Len(text) \div 100 >>

\* Width of the model's output.
EmbedDim == Len(Encode(<<>>))

\* model.encode(list): one row per input.
EncodeBatch(texts) == [i \in 1..Len(texts) |-> Encode(texts[i])]

\* embeddings.shape: a zero-row result has no second axis.
Shape(embeddings) ==
    IF Len(embeddings) = 0 THEN <<0>> ELSE <<Len(embeddings), EmbedDim>>

----------------------------------------------------------------------------
(* faiss.IndexFlatL2: an exhaustive index.  search keeps the k smallest    *)
(* (distance, id) pairs in a heap as it scans the vectors in id order and  *)
(* returns them smallest first, so equal distances come out by id.         *)

NoneIndex == [isNone |-> TRUE, d |-> 0, xb |-> <<>>]

IndexFlatL2(d) == [isNone |-> FALSE, d |-> d, xb |-> <<>>]

IndexAdd(idx, embeddings) == [idx EXCEPT !.xb = idx.xb \o embeddings]

NTotal(idx) == Len(idx.xb)

\* Squared L2 distance of two vectors of equal width.
RECURSIVE L2sqr(_, _)
L2sqr(x, y) ==
    IF x = <<>> THEN 0
    ELSE (Head(x) - Head(y)) * (Head(x) - Head(y)) + L2sqr(Tail(x), Tail(y))

\* The distance of the query to every stored vector, in id order.
RECURSIVE Distances(_, _)
Distances(xb, q) ==
    IF xb = <<>> THEN <<>>
    ELSE << L2sqr(q, Head(xb)) >> \o Distances(Tail(xb), q)

\* The labels of the k best of the ids not yet taken, best first: the
\* smallest distance wins and, among equal distances, the smallest id.
\* When no id is left the slot holds -1.
RECURSIVE TopLabels(_, _, _)
TopLabels(dist, taken, k) ==
    IF k = 0 THEN <<>>
    ELSE LET rest == (0..(Len(dist) - 1)) \ taken
         IN  IF rest = {}
             THEN << -1 >> \o TopLabels(dist, taken, k - 1)
             ELSE LET best == CHOOSE a \in rest : \A b \in rest :
                                  \/ dist[a + 1] < dist[b + 1]
                                  \/ (dist[a + 1] = dist[b + 1] /\ a <= b)
                  IN  << best >> \o TopLabels(dist, taken \cup {best}, k - 1)

\* index.search(query_vec, k): the labels row I[0].
IndexSearch(idx, q, k) == TopLabels(Distances(idx.xb, q), {}, k)

----------------------------------------------------------------------------
(* pickle: the artifact is a stream of frames, each a sequence of          *)
(* integers: <<d, ntotal>>, one frame per vector, <<n>>, one frame         *)
(* <<key>> \o text per dict item, and a closing stop frame.                *)

StopFrame == << -1 >>

NoFile == [exists |-> FALSE, bytes |-> <<>>]

FileOf(stream) == [exists |-> TRUE, bytes |-> stream]

\* pickle.dump((index, id_to_text), f)
Dump(idx, map) ==
    LET n == Cardinality(DOMAIN map)
    IN  << <<idx.d, NTotal(idx)>> >>
        \o idx.xb
        \o << <<n>> >>
        \o [j \in 1..n |-> <<j - 1>> \o map[j - 1]]
        \o << StopFrame >>

\* The stream is a complete pickle of an (index, dict) pair.
WellFormed(stream) ==
    /\ Len(stream) >= 3
    /\ Len(stream[1]) = 2
    /\ LET nt == stream[1][2]
       IN  /\ Len(stream) >= nt + 3
           /\ Len(stream[nt + 2]) = 1
           /\ stream[nt + 2][1] >= 0
           /\ Len(stream) = nt + stream[nt + 2][1] + 3
    /\ stream[Len(stream)] = StopFrame

\* pickle.load(f) of a well-formed stream: <<index, id_to_text>>
Load(stream) ==
    LET nt == stream[1][2]
        n  == stream[nt + 2][1]
        at(key) == CHOOSE j \in 1..n : Head(stream[nt + 2 + j]) = key
        keys == { Head(stream[nt + 2 + j]) : j \in 1..n }
    IN  << [isNone |-> FALSE, d |-> stream[1][1],
            xb |-> [i \in 1..nt |-> stream[1 + i]]],
           [key \in keys |-> Tail(stream[nt + 2 + at(key)])] >>

----------------------------------------------------------------------------
(* RAGEngine *)

EmptyDict == [i \in {} |-> <<>>]

Outcome(op, query, top_k, err, val) ==
    [op |-> op, query |-> query, top_k |-> top_k, err |-> err, val |-> val]

\* The call returned None.
Returned(op) == Outcome(op, <<>>, 0, NoErr, <<>>)

\* The call raised err.
Raised(op, err) == Outcome(op, <<>>, 0, err, <<>>)

\* Mutant of Enumerate: the chunks are numbered from the last to the first.
Enumerate_reversed(chunks) ==
    [i \in 0..(Len(chunks) - 1) |-> chunks[Len(chunks) - i]]

\* {i: chunk for i, chunk in enumerate(self.text_chunks)}
Enumerate(chunks) == [i \in 0..(Len(chunks) - 1) |-> chunks[i + 1]]

\* Mutant of BuiltIndex: the vectors are added to the index the engine
\* already holds instead of to a new one.
BuiltIndex_merged(chunks) ==
    LET embeddings == EncodeBatch(chunks)
    IN  IF index.isNone
        THEN IndexAdd(IndexFlatL2(Shape(embeddings)[2]), embeddings)
        ELSE IndexAdd(index, embeddings)

\* The index built by lines 27-29 from the current chunks.
BuiltIndex(chunks) ==
    LET embeddings == EncodeBatch(chunks)
    IN  IndexAdd(IndexFlatL2(Shape(embeddings)[2]), embeddings)

RECURSIVE Lookup_reversed(_, _)
\* Mutant of Lookup: the result list is built back to front.
Lookup_reversed(map, labels) ==
    IF labels = <<>> THEN <<>>
    ELSE Lookup_reversed(map, Tail(labels))
         \o (IF Head(labels) # -1 THEN << map[Head(labels)] >> ELSE <<>>)

\* [self.id_to_text[i] for i in I[0] if i != -1]
RECURSIVE Lookup(_, _)
Lookup(map, labels) ==
    IF labels = <<>> THEN <<>>
    ELSE (IF Head(labels) # -1 THEN << map[Head(labels)] >> ELSE <<>>)
         \o Lookup(map, Tail(labels))

\* Mutant of LookupDefined: the -1 labels are looked up as well.
LookupDefined_unfiltered(map, labels) ==
    \A j \in 1..Len(labels) : labels[j] \in DOMAIN map

\* Every label the comprehension looks up is a key of the dict.
LookupDefined(map, labels) ==
    \A j \in 1..Len(labels) : labels[j] # -1 => labels[j] \in DOMAIN map

\* Mutant of SearchOutcome: an engine without an index answers with no
\* chunks instead of raising.
SearchOutcome_silent(idx, map, query, top_k) ==
    IF idx.isNone
    THEN Outcome("search", query, top_k, NoErr, <<>>)
    ELSE LET labels == IndexSearch(idx, Encode(query), top_k)
         IN  IF LookupDefined(map, labels)
             THEN Outcome("search", query, top_k, NoErr, Lookup(map, labels))
             ELSE Outcome("search", query, top_k, "KeyError", <<>>)

\* What search(query, top_k) does on an engine with this index and dict.
SearchOutcome(idx, map, query, top_k) ==
    IF idx.isNone
    THEN Outcome("search", query, top_k, "AttributeError", <<>>)
    ELSE LET labels == IndexSearch(idx, Encode(query), top_k)
         IN  IF LookupDefined(map, labels)
             THEN Outcome("search", query, top_k, NoErr, Lookup(map, labels))
             ELSE Outcome("search", query, top_k, "KeyError", <<>>)

\* What the history variable prior records of an index.
Snapshot(idx) == [built |-> ~idx.isNone, ntotal |-> NTotal(idx)]

\* Threads that may be inside search on the one engine at the same time.
Threads == {1, 2}

\* A thread outside search.
IdleCall ==
    [pc |-> "idle", query |-> <<>>, top_k |-> 0, query_vec |-> <<>>,
     labels |-> <<>>, out |-> Returned("idle")]

NoCalls == [t \in Threads |-> IdleCall]

\* No route handler has answered yet.
NoRequest ==
    [route |-> "", status |-> 0, filename |-> "", detail |-> "",
     upload |-> [filename |-> "", size |-> 0, content |-> ""]]

\* Clients the middleware tells apart: request.client.host, or "unknown".
ClientIPs == {"10.0.0.7", "unknown"}

\* No timestamp recorded for any client.
NoClients == [ip \in ClientIPs |-> <<>>]

\* The middleware has handled no request yet.
NoDispatch ==
    [ip |-> "", path |-> "", status |-> 0, forwarded |-> FALSE, streak |-> 0]

\* Processes that may run embed_and_store at the same time, each on an
\* engine of its own, and none of them inside it.
Writers == {1, 2}
NoWriters == [w \in Writers |-> [pc |-> "none", stream |-> <<>>, pos |-> 0]]

\* No prompt built yet.
NoPrompt == [built |-> FALSE, sample |-> "", domain |-> "", domain_knowledge |-> <<>>]

\* The API process before feature_engine is imported and before any request.
AppIdle ==
    [started |-> FALSE, model |-> "none", req |-> "none", path |-> "",
     domain |-> "", searched |-> FALSE, search_err |-> NoErr,
     context |-> <<>>, prompt |-> NoPrompt, model_step |-> FALSE,
     reply |-> "", result |-> ""]

Init ==
    /\ docs \in Folders
    /\ index = NoneIndex
    /\ text_chunks = <<>>
    /\ id_to_text = EmptyDict
    /\ artifact = NoFile
    /\ loads = 0
    /\ ret = Returned("__init__")
    /\ saved = [index |-> NoneIndex, id_to_text |-> EmptyDict]
    /\ prior = Snapshot(NoneIndex)
    /\ app = AppIdle
    /\ calls = NoCalls
    /\ uploads = {}
    /\ http = NoRequest
    /\ clients = NoClients
    /\ now = 0
    /\ admitted = NoClients
    /\ dispatched = NoDispatch
    /\ writers = NoWriters

\* RAGEngine(doc_folder): a fresh engine over the same folder and artifact.
NewEngine ==
    /\ index' = NoneIndex
    /\ text_chunks' = <<>>
    /\ id_to_text' = EmptyDict
    /\ loads' = 0
    /\ ret' = Returned("__init__")
    /\ UNCHANGED <<docs, artifact, saved>>
    /\ prior' = Snapshot(index)
    /\ UNCHANGED others

\* Mutant of load_and_split_docs: the chunk list is cleared first.
load_and_split_docs_fresh ==
    /\ loads < MaxLoads
    /\ text_chunks' = ExtendAll(<<>>, Glob(docs))
    /\ loads' = loads + 1
    /\ ret' = IF AllDecodable(Glob(docs))
              THEN Returned("load_and_split_docs")
              ELSE Raised("load_and_split_docs", "UnicodeDecodeError")
    /\ UNCHANGED <<docs, index, id_to_text, artifact, saved>>
    /\ prior' = Snapshot(index)
    /\ UNCHANGED others

load_and_split_docs ==
    /\ loads < MaxLoads
    /\ text_chunks' = ExtendAll(text_chunks, Glob(docs))
    /\ loads' = loads + 1
    /\ ret' = IF AllDecodable(Glob(docs))
              THEN Returned("load_and_split_docs")
              ELSE Raised("load_and_split_docs", "UnicodeDecodeError")
    /\ UNCHANGED <<docs, index, id_to_text, artifact, saved>>
    /\ prior' = Snapshot(index)
    /\ UNCHANGED others

\* embed_and_store with no chunks: embeddings.shape[1] does not exist.
embed_and_store_empty ==
    /\ Len(Shape(EncodeBatch(text_chunks))) < 2
    /\ ret' = Raised("embed_and_store", "IndexError")
    /\ UNCHANGED <<docs, index, text_chunks, id_to_text, artifact, loads, saved>>
    /\ prior' = Snapshot(index)
    /\ UNCHANGED others

\* Mutant of embed_and_store: the new vectors are added to the index the
\* engine already holds.
embed_and_store_merges ==
    /\ Len(Shape(EncodeBatch(text_chunks))) >= 2
    /\ index' = IF index.isNone THEN BuiltIndex(text_chunks)
                ELSE IndexAdd(index, EncodeBatch(text_chunks))
    /\ id_to_text' = Enumerate(text_chunks)
    /\ artifact' = FileOf(Dump(index', id_to_text'))
    /\ ret' = Returned("embed_and_store")
    /\ saved' = [index |-> index', id_to_text |-> id_to_text']
    /\ UNCHANGED <<docs, text_chunks, loads>>
    /\ prior' = Snapshot(index)
    /\ UNCHANGED others

\* embed_and_store, the artifact written in full.
embed_and_store ==
    /\ Len(Shape(EncodeBatch(text_chunks))) >= 2
    /\ index' = BuiltIndex(text_chunks)
    /\ id_to_text' = Enumerate(text_chunks)
    /\ artifact' = FileOf(Dump(index', id_to_text'))
    /\ ret' = Returned("embed_and_store")
    /\ saved' = [index |-> index', id_to_text |-> id_to_text']
    /\ UNCHANGED <<docs, text_chunks, loads>>
    /\ prior' = Snapshot(index)
    /\ UNCHANGED others

\* Mutant of embed_and_store_open_fails: the engine is put back as it was
\* when the file cannot be opened.
embed_and_store_rolls_back ==
    /\ Len(Shape(EncodeBatch(text_chunks))) >= 2
    /\ ret' = Raised("embed_and_store", "OSError")
    /\ UNCHANGED <<docs, index, id_to_text, text_chunks, artifact, loads, saved>>
    /\ prior' = Snapshot(index)
    /\ UNCHANGED others

\* embed_and_store, open(save_path, "wb") raising.
embed_and_store_open_fails ==
    /\ Len(Shape(EncodeBatch(text_chunks))) >= 2
    /\ index' = BuiltIndex(text_chunks)
    /\ id_to_text' = Enumerate(text_chunks)
    /\ ret' = Raised("embed_and_store", "OSError")
    /\ UNCHANGED <<docs, text_chunks, artifact, loads, saved>>
    /\ prior' = Snapshot(index)
    /\ UNCHANGED others

\* embed_and_store, pickle.dump raising after the file was opened (and so
\* truncated) and part of the stream was written.
embed_and_store_dump_fails ==
    /\ Len(Shape(EncodeBatch(text_chunks))) >= 2
    /\ index' = BuiltIndex(text_chunks)
    /\ id_to_text' = Enumerate(text_chunks)
    /\ LET stream == Dump(index', id_to_text')
       IN  artifact' = FileOf(SubSeq(stream, 1, Len(stream) \div 2))
    /\ ret' = Raised("embed_and_store", "OSError")
    /\ UNCHANGED <<docs, text_chunks, loads, saved>>
    /\ prior' = Snapshot(index)
    /\ UNCHANGED others

\* Mutant of load_index: a load that fails leaves the engine empty.
load_index_resets ==
    /\ IF ~artifact.exists
       THEN /\ ret' = Raised("load_index", "FileNotFoundError")
            /\ index' = NoneIndex
            /\ id_to_text' = EmptyDict
       ELSE IF ~WellFormed(artifact.bytes)
       THEN /\ ret' = Raised("load_index", "UnpicklingError")
            /\ index' = NoneIndex
            /\ id_to_text' = EmptyDict
       ELSE /\ index' = Load(artifact.bytes)[1]
            /\ id_to_text' = Load(artifact.bytes)[2]
            /\ ret' = Returned("load_index")
    /\ UNCHANGED <<docs, text_chunks, artifact, loads, saved>>
    /\ prior' = Snapshot(index)
    /\ UNCHANGED others

\* Mutant of load_index: only the index of the loaded pair is kept.
load_index_index_only ==
    /\ IF ~artifact.exists
       THEN /\ ret' = Raised("load_index", "FileNotFoundError")
            /\ UNCHANGED <<index, id_to_text>>
       ELSE IF ~WellFormed(artifact.bytes)
       THEN /\ ret' = Raised("load_index", "UnpicklingError")
            /\ UNCHANGED <<index, id_to_text>>
       ELSE /\ index' = Load(artifact.bytes)[1]
            /\ ret' = Returned("load_index")
            /\ UNCHANGED id_to_text
    /\ UNCHANGED <<docs, text_chunks, artifact, loads, saved>>
    /\ prior' = Snapshot(index)
    /\ UNCHANGED others

\* Mutant of load_index: the index is dropped before the file is opened.
load_index_clears ==
    /\ IF ~artifact.exists
       THEN /\ ret' = Raised("load_index", "FileNotFoundError")
            /\ index' = NoneIndex
            /\ UNCHANGED id_to_text
       ELSE IF ~WellFormed(artifact.bytes)
       THEN /\ ret' = Raised("load_index", "UnpicklingError")
            /\ index' = NoneIndex
            /\ UNCHANGED id_to_text
       ELSE /\ index' = Load(artifact.bytes)[1]
            /\ id_to_text' = Load(artifact.bytes)[2]
            /\ ret' = Returned("load_index")
    /\ UNCHANGED <<docs, text_chunks, artifact, loads, saved>>
    /\ prior' = Snapshot(index)
    /\ UNCHANGED others

load_index ==
    /\ IF ~artifact.exists
       THEN /\ ret' = Raised("load_index", "FileNotFoundError")
            /\ UNCHANGED <<index, id_to_text>>
       ELSE IF ~WellFormed(artifact.bytes)
       THEN /\ ret' = Raised("load_index",
                         IF artifact.bytes = <<>> THEN "EOFError"
                         ELSE "UnpicklingError")
            /\ UNCHANGED <<index, id_to_text>>
       ELSE /\ index' = Load(artifact.bytes)[1]
            /\ id_to_text' = Load(artifact.bytes)[2]
            /\ ret' = Returned("load_index")
    /\ UNCHANGED <<docs, text_chunks, artifact, loads, saved>>
    /\ prior' = Snapshot(index)
    /\ UNCHANGED others

search ==
    /\ \E query \in Queries, top_k \in 1..MaxK :
          ret' = SearchOutcome(index, id_to_text, query, top_k)
    /\ UNCHANGED <<docs, index, text_chunks, id_to_text, artifact, loads, saved>>
    /\ prior' = Snapshot(index)
    /\ UNCHANGED others

Next ==
    \/ NewEngine
    \/ load_and_split_docs
    \/ embed_and_store_empty
    \/ embed_and_store
    \/ embed_and_store_open_fails
    \/ embed_and_store_dump_fails
    \/ load_index
    \/ search

Spec == Init /\ [][Next]_vars

----------------------------------------------------------------------------
(* The calling layer: feature_engine.py and build_rag_index.py *)

\* settings.RAG_TOP_K
RAG_TOP_K == 3

\* Uploaded files a request may name; pd.read_csv raises on the second.
CsvFiles == {"data.csv", "missing.csv"}
Readable(path) == path # "missing.csv"

\* Domains a request may name and the query built from each:
\* f"feature engineering for {domain}".
Domains == {"telecom", "retail"}
DomainQuery(domain) == IF domain = "telecom" THEN Doc(1000, 4) ELSE Doc(2000, 300)

\* Module-level model: None when no key or no model could be initialised.
Models == {"none", "gemini"}

\* What model.generate_content may come back with.
Replies ==
    {"raises", "no_text_attr", "none_text", "empty", "json", "json_scalar",
     "wrapped_json", "wrapped_bad_json", "no_json"}

\* "\n\n"
Separator == <<10, 10>>

RECURSIVE JoinChunks(_)
\* "\n\n".join(context_chunks)
JoinChunks(chunks) ==
    IF chunks = <<>> THEN <<>>
    ELSE IF Len(chunks) = 1 THEN chunks[1]
    ELSE chunks[1] \o Separator \o JoinChunks(Tail(chunks))

feature_prompt_template(df_sample, domain_knowledge, domain) ==
    [built |-> TRUE, sample |-> df_sample, domain |-> domain,
     domain_knowledge |-> domain_knowledge]

\* Mutant of ModelReply: text that is not JSON is handed back as it came.
ModelReply_raw(reply) ==
    CASE reply = "raises"           -> "Gemini API call failed"
      [] reply = "no_text_attr"     -> "Invalid response from Gemini API"
      [] reply = "none_text"        -> "Empty response from Gemini API"
      [] reply = "empty"            -> "Empty response from Gemini API"
      [] reply = "json"             -> "suggestions"
      [] reply = "json_scalar"      -> "Gemini API call failed"
      [] reply = "wrapped_json"     -> "suggestions"
      [] reply = "wrapped_bad_json" -> "Gemini API call failed"
      [] reply = "no_json"          -> "suggestions"

\* Lines 144-184 of suggest_features: what is returned for each reply, the
\* string "suggestions" for the parsed list and otherwise the value of the
\* 'error' key of the one dict returned.  A reply that parses to a scalar
\* makes len(suggestions) raise inside the try of line 144.
ModelReply(reply) ==
    CASE reply = "raises"           -> "Gemini API call failed"
      [] reply = "no_text_attr"     -> "Invalid response from Gemini API"
      [] reply = "none_text"        -> "Empty response from Gemini API"
      [] reply = "empty"            -> "Empty response from Gemini API"
      [] reply = "json"             -> "suggestions"
      [] reply = "json_scalar"      -> "Gemini API call failed"
      [] reply = "wrapped_json"     -> "suggestions"
      [] reply = "wrapped_bad_json" -> "Gemini API call failed"
      [] reply = "no_json"          -> "Gemini returned invalid JSON"

\* The request record before line 122.
Started(a, path, domain) ==
    [a EXCEPT !.req = "done", !.path = path, !.domain = domain,
              !.searched = FALSE, !.search_err = NoErr, !.context = <<>>,
              !.prompt = NoPrompt, !.model_step = FALSE, !.reply = "",
              !.result = ""]

\* Mutant of Suggest: rag.search is called outside the inner try, so its
\* error reaches the outer handler.
Suggest_unguarded(a, out, path, domain, reply) ==
    IF ~Readable(path)
    THEN [Started(a, path, domain) EXCEPT !.result = "Feature generation failed"]
    ELSE IF out.err # NoErr
    THEN [Started(a, path, domain) EXCEPT
              !.searched = TRUE, !.search_err = out.err,
              !.result = "Feature generation failed"]
    ELSE [Started(a, path, domain) EXCEPT
              !.searched = TRUE, !.search_err = out.err,
              !.context = JoinChunks(out.val),
              !.prompt = feature_prompt_template(path, JoinChunks(out.val), domain),
              !.model_step = TRUE,
              !.reply = IF a.model = "none" THEN "" ELSE reply,
              !.result = IF a.model = "none" THEN "Model not initialized"
                         ELSE ModelReply(reply)]

\* suggest_features(file_path, domain), out being what rag.search did.
Suggest(a, out, path, domain, reply) ==
    IF ~Readable(path)
    THEN [Started(a, path, domain) EXCEPT !.result = "Feature generation failed"]
    ELSE LET context == IF out.err = NoErr THEN JoinChunks(out.val) ELSE <<>>
         IN  [Started(a, path, domain) EXCEPT
                  !.searched = TRUE, !.search_err = out.err,
                  !.context = context,
                  !.prompt = feature_prompt_template(path, context, domain),
                  !.model_step = TRUE,
                  !.reply = IF a.model = "none" THEN "" ELSE reply,
                  !.result = IF a.model = "none" THEN "Model not initialized"
                             ELSE ModelReply(reply)]

\* build_rag_index.py run to its end, in a process of its own: a new engine,
\* load_and_split_docs, embed_and_store.  It dies before writing when a file
\* cannot be decoded or there is no chunk.
build_script ==
    /\ LET chunks == ExtendAll(<<>>, Glob(docs)) IN
          IF AllDecodable(Glob(docs)) /\ Len(Shape(EncodeBatch(chunks))) >= 2
          THEN /\ artifact' = FileOf(Dump(BuiltIndex(chunks), Enumerate(chunks)))
               /\ saved' = [index |-> BuiltIndex(chunks),
                            id_to_text |-> Enumerate(chunks)]
          ELSE UNCHANGED <<artifact, saved>>
    /\ UNCHANGED <<docs, index, text_chunks, id_to_text, loads, ret, prior>>
    /\ UNCHANGED others

\* build_rag_index.py dying inside pickle.dump.
build_script_interrupted ==
    /\ AllDecodable(Glob(docs))
    /\ LET chunks == ExtendAll(<<>>, Glob(docs)) IN
          /\ Len(Shape(EncodeBatch(chunks))) >= 2
          /\ LET stream == Dump(BuiltIndex(chunks), Enumerate(chunks))
             IN  artifact' = FileOf(SubSeq(stream, 1, Len(stream) \div 2))
    /\ UNCHANGED <<docs, index, text_chunks, id_to_text, loads, ret, saved, prior>>
    /\ UNCHANGED others

\* Import of feature_engine: the module-level model, then lines 79-84, the
\* shared engine and its load_index with every exception logged and dropped.
app_startup ==
    /\ ~app.started
    /\ \E m \in Models : app' = [AppIdle EXCEPT !.started = TRUE, !.model = m]
    /\ text_chunks' = <<>>
    /\ loads' = 0
    /\ IF ~artifact.exists
       THEN /\ ret' = Raised("load_index", "FileNotFoundError")
            /\ index' = NoneIndex
            /\ id_to_text' = EmptyDict
       ELSE IF ~WellFormed(artifact.bytes)
       THEN /\ ret' = Raised("load_index",
                         IF artifact.bytes = <<>> THEN "EOFError"
                         ELSE "UnpicklingError")
            /\ index' = NoneIndex
            /\ id_to_text' = EmptyDict
       ELSE /\ index' = Load(artifact.bytes)[1]
            /\ id_to_text' = Load(artifact.bytes)[2]
            /\ ret' = Returned("load_index")
    /\ prior' = Snapshot(NoneIndex)
    /\ UNCHANGED <<docs, artifact, saved, calls>>
    /\ UNCHANGED <<web, beyond>>

\* Mutant of suggest_features: an engine without an index loads the
\* artifact before searching.
suggest_features_lazy ==
    /\ app.started
    /\ \E path \in CsvFiles, domain \in Domains, reply \in Replies :
          LET lazy == Readable(path) /\ index.isNone
                          /\ artifact.exists /\ WellFormed(artifact.bytes)
              idx == IF lazy THEN Load(artifact.bytes)[1] ELSE index
              map == IF lazy THEN Load(artifact.bytes)[2] ELSE id_to_text
              out == SearchOutcome(idx, map, DomainQuery(domain), RAG_TOP_K)
          IN  /\ app' = Suggest(app, out, path, domain, reply)
              /\ ret' = IF Readable(path) THEN out ELSE ret
              /\ prior' = IF Readable(path) THEN Snapshot(index) ELSE prior
              /\ index' = idx
              /\ id_to_text' = map
    /\ UNCHANGED <<docs, text_chunks, artifact, loads, saved, calls>>
    /\ UNCHANGED <<web, beyond>>

\* One call of suggest_features(file_path, domain) on the running process.
suggest_features ==
    /\ app.started
    /\ \E path \in CsvFiles, domain \in Domains, reply \in Replies :
          LET out == SearchOutcome(index, id_to_text, DomainQuery(domain), RAG_TOP_K)
          IN  /\ app' = Suggest(app, out, path, domain, reply)
              /\ ret' = IF Readable(path) THEN out ELSE ret
              /\ prior' = IF Readable(path) THEN Snapshot(index) ELSE prior
    /\ UNCHANGED <<docs, index, text_chunks, id_to_text, artifact, loads, saved, calls>>
    /\ UNCHANGED <<web, beyond>>

\* settings.MAX_FILE_SIZE and settings.ALLOWED_FILE_TYPES
MAX_FILE_SIZE == 100 * 1024 * 1024
ALLOWED_FILE_TYPES == {"csv"}

\* Names an upload may carry.
UploadNames == {"data.csv", "DATA.CSV", "data.txt", "data"}

\* file.filename.split(".")[-1].lower() if "." in file.filename else ""
FileExt(filename) ==
    CASE filename = "data.csv" -> "csv"
      [] filename = "DATA.CSV" -> "csv"
      [] filename = "data.txt" -> "txt"
      [] filename = "data"     -> ""

\* Uploads: a name, the number of bytes read, and what pd.read_csv makes of
\* them: rows, a header and no row, no data at all, or a parser error.
UploadRequests ==
    { [filename |-> f, size |-> z, content |-> c] :
        f \in UploadNames,
        z \in {0, MAX_FILE_SIZE, MAX_FILE_SIZE + 1},
        c \in {"rows", "header_only", "no_data", "garbage"} }

\* An upload that can be sent: only a body of no bytes has no data.
Sendable(u) == (u.size = 0) <=> (u.content = "no_data")

\* How df.to_csv(file_path) may end, and whether generate_eda_summary and
\* the response model go through.
DiskOutcomes == {"ok", "open_fails", "write_fails"}

Response(route, status, filename, detail, upload) ==
    [route |-> route, status |-> status, filename |-> filename,
     detail |-> detail, upload |-> upload]

\* Mutant of UploadOutcome: the file is saved before the CSV is parsed.
UploadOutcome_save_first(u, disk, eda_ok) ==
    IF u.size > MAX_FILE_SIZE
    THEN [status |-> 413, detail |-> "File size exceeds maximum", saved |-> FALSE]
    ELSE IF FileExt(u.filename) \notin ALLOWED_FILE_TYPES
    THEN [status |-> 400, detail |-> "Invalid file type", saved |-> FALSE]
    ELSE IF u.content = "no_data"
    THEN [status |-> 400, detail |-> "File has no data", saved |-> TRUE]
    ELSE IF u.content \in {"header_only", "garbage"}
    THEN [status |-> 400, detail |-> "Invalid CSV format", saved |-> TRUE]
    ELSE IF disk # "ok"
    THEN [status |-> 500, detail |-> "Upload failed", saved |-> disk = "write_fails"]
    ELSE IF ~eda_ok
    THEN [status |-> 500, detail |-> "Upload failed", saved |-> TRUE]
    ELSE [status |-> 200, detail |-> "", saved |-> TRUE]

\* upload_csv, lines 123-175: the status answered and whether a file of that
\* name is in the upload directory afterwards because of this call.  The
\* HTTPException raised for an empty frame (line 146) is caught at line 150
\* and raised again with status 400.
UploadOutcome(u, disk, eda_ok) ==
    IF u.size > MAX_FILE_SIZE
    THEN [status |-> 413, detail |-> "File size exceeds maximum", saved |-> FALSE]
    ELSE IF FileExt(u.filename) \notin ALLOWED_FILE_TYPES
    THEN [status |-> 400, detail |-> "Invalid file type", saved |-> FALSE]
    ELSE IF u.content = "no_data"
    THEN [status |-> 400, detail |-> "File has no data", saved |-> FALSE]
    ELSE IF u.content \in {"header_only", "garbage"}
    THEN [status |-> 400, detail |-> "Invalid CSV format", saved |-> FALSE]
    ELSE IF disk # "ok"
    THEN [status |-> 500, detail |-> "Upload failed", saved |-> disk = "write_fails"]
    ELSE IF ~eda_ok
    THEN [status |-> 500, detail |-> "Upload failed", saved |-> TRUE]
    ELSE [status |-> 200, detail |-> "", saved |-> TRUE]

\* POST /upload/
upload_csv ==
    /\ \E u \in UploadRequests, disk \in DiskOutcomes, eda_ok \in BOOLEAN :
          /\ Sendable(u)
          \* the disk and the summary matter only to an upload that gets to them
          /\ UploadOutcome(u, "ok", TRUE).status # 200 => (disk = "ok" /\ eda_ok)
          /\ disk # "ok" => eda_ok
          /\ LET o == UploadOutcome(u, disk, eda_ok) IN
                /\ uploads' = IF o.saved THEN uploads \cup {u.filename} ELSE uploads
                /\ http' = Response("/upload/", o.status, u.filename, o.detail, u)
    /\ UNCHANGED <<docs, index, text_chunks, id_to_text, artifact, loads, ret,
                   saved, prior, app, calls>>
    /\ UNCHANGED beyond

\* Names a feature-suggestions request may ask for, and the replies of the
\* model its calls are tried with.
RequestNames == UploadNames \cup CsvFiles
HandlerReplies == {"raises", "json", "no_json"}

\* Mutant of feature_suggestions: the generic except clause also takes the
\* 404 and answers 500.
feature_suggestions_generic ==
    /\ app.started
    /\ \E filename \in RequestNames, domain \in Domains, reply \in HandlerReplies :
          IF filename \notin uploads
          THEN /\ http' = Response("/feature-suggestions/", 500, filename,
                                   "Feature generation failed", NoRequest.upload)
               /\ UNCHANGED <<app, ret, prior>>
          ELSE LET out == SearchOutcome(index, id_to_text, DomainQuery(domain), RAG_TOP_K)
               IN  /\ app' = Suggest(app, out, filename, domain, reply)
                   /\ ret' = out
                   /\ prior' = Snapshot(index)
                   /\ http' = Response("/feature-suggestions/", 200, filename,
                                       app'.result, NoRequest.upload)
    /\ UNCHANGED <<docs, index, text_chunks, id_to_text, artifact, loads, saved,
                   calls, uploads>>
    /\ UNCHANGED beyond

\* GET /feature-suggestions/, lines 190-232: 404 when the file is not in the
\* upload directory, else what suggest_features returned, with status 200.
feature_suggestions ==
    /\ app.started
    /\ \E filename \in RequestNames, domain \in Domains, reply \in HandlerReplies :
          IF filename \notin uploads
          THEN /\ http' = Response("/feature-suggestions/", 404, filename,
                                   "File not found", NoRequest.upload)
               /\ UNCHANGED <<app, ret, prior>>
          ELSE LET out == SearchOutcome(index, id_to_text, DomainQuery(domain), RAG_TOP_K)
               IN  /\ app' = Suggest(app, out, filename, domain, reply)
                   /\ ret' = out
                   /\ prior' = Snapshot(index)
                   /\ http' = Response("/feature-suggestions/", 200, filename,
                                       app'.result, NoRequest.upload)
    /\ UNCHANGED <<docs, index, text_chunks, id_to_text, artifact, loads, saved,
                   calls, uploads>>
    /\ UNCHANGED beyond

NextApp ==
    \/ build_script
    \/ build_script_interrupted
    \/ app_startup
    \/ suggest_features

SpecApp == Init /\ [][NextApp]_vars

\* The API process with its routes, over a folder of one text file.
InitWeb == Init /\ docs \in ListingsOf(1)

NextWeb ==
    \/ build_script
    \/ app_startup
    \/ upload_csv
    \/ feature_suggestions

SpecWeb == InitWeb /\ [][NextWeb]_vars

----------------------------------------------------------------------------
(* search, line by line, called from several threads on one engine; the   *)
(* outcome of each call is kept in the thread's own record                 *)

\* An engine right after __init__, or right after build_rag_index.py's
\* load_and_split_docs and embed_and_store over a folder with text in it.
InitConc ==
    /\ docs \in Folders
    /\ \/ /\ index = NoneIndex
          /\ text_chunks = <<>>
          /\ id_to_text = EmptyDict
          /\ artifact = NoFile
          /\ loads = 0
          /\ ret = Returned("__init__")
          /\ saved = [index |-> NoneIndex, id_to_text |-> EmptyDict]
       \/ /\ AllDecodable(Glob(docs))
          /\ text_chunks = ExtendAll(<<>>, Glob(docs))
          /\ text_chunks # <<>>
          /\ index = BuiltIndex(text_chunks)
          /\ id_to_text = Enumerate(text_chunks)
          /\ artifact = FileOf(Dump(index, id_to_text))
          /\ loads = 1
          /\ ret = Returned("embed_and_store")
          /\ saved = [index |-> index, id_to_text |-> id_to_text]
    /\ prior = Snapshot(NoneIndex)
    /\ app = AppIdle
    /\ calls = NoCalls
    /\ uploads = {}
    /\ http = NoRequest
    /\ clients = NoClients
    /\ now = 0
    /\ admitted = NoClients
    /\ dispatched = NoDispatch
    /\ writers = NoWriters

\* Entry and line 44: query_vec = model.encode([query]).
search_encode(t) ==
    /\ calls[t].pc \in {"idle", "done"}
    /\ \E query \in Queries, top_k \in 1..MaxK :
          calls' = [calls EXCEPT ![t] =
                       [IdleCall EXCEPT !.pc = "l45", !.query = query,
                                        !.top_k = top_k,
                                        !.query_vec = Encode(query)]]
    /\ UNCHANGED <<docs, index, text_chunks, id_to_text, artifact, loads, ret,
                   saved, prior, app>>
    /\ UNCHANGED <<web, beyond>>

\* Mutant of search_index: the index keeps the query vector it was asked
\* about.
search_index_caching(t) ==
    /\ calls[t].pc = "l45"
    /\ IF index.isNone
       THEN /\ calls' = [calls EXCEPT ![t].pc = "done",
                           ![t].out = Outcome("search", calls[t].query,
                                              calls[t].top_k, "AttributeError", <<>>)]
            /\ UNCHANGED index
       ELSE /\ calls' = [calls EXCEPT ![t].pc = "l46",
                           ![t].labels = IndexSearch(index, calls[t].query_vec,
                                                     calls[t].top_k)]
            /\ index' = IndexAdd(index, << calls[t].query_vec >>)
    /\ UNCHANGED <<docs, text_chunks, id_to_text, artifact, loads, ret, saved,
                   prior, app>>
    /\ UNCHANGED <<web, beyond>>

\* Line 45: D, I = self.index.search(query_vec, top_k).
search_index(t) ==
    /\ calls[t].pc = "l45"
    /\ IF index.isNone
       THEN /\ calls' = [calls EXCEPT ![t].pc = "done",
                           ![t].out = Outcome("search", calls[t].query,
                                              calls[t].top_k, "AttributeError", <<>>)]
       ELSE /\ calls' = [calls EXCEPT ![t].pc = "l46",
                           ![t].labels = IndexSearch(index, calls[t].query_vec,
                                                     calls[t].top_k)]
    /\ UNCHANGED <<docs, index, text_chunks, id_to_text, artifact, loads, ret,
                   saved, prior, app>>
    /\ UNCHANGED <<web, beyond>>

\* Mutant of search_lookup: the labels are read from a buffer the threads
\* share, so a thread past line 45 at the same time has overwritten them.
search_lookup_shared(t) ==
    /\ calls[t].pc = "l46"
    /\ LET labels == IF \E u \in Threads \ {t} : calls[u].pc = "l46"
                      THEN calls[CHOOSE u \in Threads \ {t} : calls[u].pc = "l46"].labels
                      ELSE calls[t].labels
       IN  calls' = [calls EXCEPT ![t].pc = "done",
                       ![t].out =
                           IF LookupDefined(id_to_text, labels)
                           THEN Outcome("search", calls[t].query, calls[t].top_k,
                                        NoErr, Lookup(id_to_text, labels))
                           ELSE Outcome("search", calls[t].query, calls[t].top_k,
                                        "KeyError", <<>>)]
    /\ UNCHANGED <<docs, index, text_chunks, id_to_text, artifact, loads, ret,
                   saved, prior, app>>
    /\ UNCHANGED <<web, beyond>>

\* Line 46: return [self.id_to_text[i] for i in I[0] if i != -1].
search_lookup(t) ==
    /\ calls[t].pc = "l46"
    /\ calls' = [calls EXCEPT ![t].pc = "done",
                    ![t].out =
                        IF LookupDefined(id_to_text, calls[t].labels)
                        THEN Outcome("search", calls[t].query, calls[t].top_k,
                                     NoErr, Lookup(id_to_text, calls[t].labels))
                        ELSE Outcome("search", calls[t].query, calls[t].top_k,
                                     "KeyError", <<>>)]
    /\ UNCHANGED <<docs, index, text_chunks, id_to_text, artifact, loads, ret,
                   saved, prior, app>>
    /\ UNCHANGED <<web, beyond>>

NextConc ==
    \E t \in Threads :
        \/ search_encode(t)
        \/ search_index(t)
        \/ search_lookup(t)

SpecConc == InitConc /\ [][NextConc]_vars

----------------------------------------------------------------------------
(* RateLimitMiddleware *)

\* Requests per client and minute the middleware is constructed with.
calls_per_minute == 2

\* Age, in seconds, at which a recorded timestamp is dropped.
Window == 60

\* The clock stops at MaxTime; it advances by one of Steps.
MaxTime == 100
Steps == {20, 40}

\* request.url.path
Paths == {"/health", "/upload/"}

RECURSIVE Fresh(_, _)
\* [timestamp for timestamp in stamps if current_time - timestamp < 60]
Fresh(stamps, current_time) ==
    IF stamps = <<>> THEN <<>>
    ELSE (IF current_time - Head(stamps) < Window THEN <<Head(stamps)>> ELSE <<>>)
         \o Fresh(Tail(stamps), current_time)

\* What dispatch did with a request: the status it answered or raised with
\* and whether it called call_next.  streak counts the 429s this client was
\* answered since anything else was dispatched, up to two.
Dispatched(ip, path, status, forwarded) ==
    [ip |-> ip, path |-> path, status |-> status, forwarded |-> forwarded,
     streak |-> IF dispatched.ip = ip /\ dispatched.status = 429
                THEN (IF dispatched.streak < 2 THEN dispatched.streak + 1 ELSE 2)
                ELSE 0]

\* Mutant of dispatch: health checks are counted and limited like any
\* other request.
dispatch_counts_health ==
    /\ \E ip \in ClientIPs, path \in Paths :
          LET kept == Fresh(clients[ip], now) IN
              IF Len(kept) >= calls_per_minute
              THEN /\ clients' = [clients EXCEPT ![ip] = kept]
                   /\ dispatched' = Dispatched(ip, path, 429, FALSE)
                   /\ UNCHANGED admitted
              ELSE /\ clients' = [clients EXCEPT ![ip] = Append(kept, now)]
                   /\ admitted' = [admitted EXCEPT ![ip] = Append(@, now)]
                   /\ dispatched' = Dispatched(ip, path, 200, TRUE)
    /\ UNCHANGED <<docs, index, text_chunks, id_to_text, artifact, loads, ret,
                   saved, prior, app, calls, uploads, http, now, writers>>

\* Mutant of dispatch: the request is recorded before the limit is checked.
dispatch_records_rejected ==
    /\ \E ip \in ClientIPs, path \in Paths :
          IF path = "/health"
          THEN /\ dispatched' = Dispatched(ip, path, 200, TRUE)
               /\ UNCHANGED <<clients, admitted>>
          ELSE LET kept == Fresh(clients[ip], now) IN
               IF Len(kept) >= calls_per_minute
               THEN /\ clients' = [clients EXCEPT ![ip] = Append(kept, now)]
                    /\ dispatched' = Dispatched(ip, path, 429, FALSE)
                    /\ UNCHANGED admitted
               ELSE /\ clients' = [clients EXCEPT ![ip] = Append(kept, now)]
                    /\ admitted' = [admitted EXCEPT ![ip] = Append(@, now)]
                    /\ dispatched' = Dispatched(ip, path, 200, TRUE)
    /\ UNCHANGED <<docs, index, text_chunks, id_to_text, artifact, loads, ret,
                   saved, prior, app, calls, uploads, http, now, writers>>

\* Mutant of dispatch: the limit is compared with > in place of >=.
dispatch_off_by_one ==
    /\ \E ip \in ClientIPs, path \in Paths :
          IF path = "/health"
          THEN /\ dispatched' = Dispatched(ip, path, 200, TRUE)
               /\ UNCHANGED <<clients, admitted>>
          ELSE LET kept == Fresh(clients[ip], now) IN
               IF Len(kept) > calls_per_minute
               THEN /\ clients' = [clients EXCEPT ![ip] = kept]
                    /\ dispatched' = Dispatched(ip, path, 429, FALSE)
                    /\ UNCHANGED admitted
               ELSE /\ clients' = [clients EXCEPT ![ip] = Append(kept, now)]
                    /\ admitted' = [admitted EXCEPT ![ip] = Append(@, now)]
                    /\ dispatched' = Dispatched(ip, path, 200, TRUE)
    /\ UNCHANGED <<docs, index, text_chunks, id_to_text, artifact, loads, ret,
                   saved, prior, app, calls, uploads, http, now, writers>>

\* RateLimitMiddleware.dispatch up to its call of call_next: lines 19-39
\* hold no await, so the event loop runs them as one step.  The history
\* variable admitted takes the timestamp of every request forwarded past
\* the limit check.
dispatch ==
    /\ \E ip \in ClientIPs, path \in Paths :
          IF path = "/health"
          THEN /\ dispatched' = Dispatched(ip, path, 200, TRUE)
               /\ UNCHANGED <<clients, admitted>>
          ELSE LET kept == Fresh(clients[ip], now) IN
               IF Len(kept) >= calls_per_minute
               THEN /\ clients' = [clients EXCEPT ![ip] = kept]
                    /\ dispatched' = Dispatched(ip, path, 429, FALSE)
                    /\ UNCHANGED admitted
               ELSE /\ clients' = [clients EXCEPT ![ip] = Append(kept, now)]
                    /\ admitted' = [admitted EXCEPT ![ip] = Append(@, now)]
                    /\ dispatched' = Dispatched(ip, path, 200, TRUE)
    /\ UNCHANGED <<docs, index, text_chunks, id_to_text, artifact, loads, ret,
                   saved, prior, app, calls, uploads, http, now, writers>>

\* time.time() moves on.  The history drops what has left the window that
\* ends now.
tick ==
    /\ \E d \in Steps :
          /\ now + d <= MaxTime
          /\ now' = now + d
          /\ admitted' = [ip \in ClientIPs |-> Fresh(admitted[ip], now')]
    /\ UNCHANGED <<docs, index, text_chunks, id_to_text, artifact, loads, ret,
                   saved, prior, app, calls, uploads, http, clients,
                   dispatched, writers>>

NextRate ==
    \/ dispatch
    \/ tick

\* The middleware as constructed, beside an engine over an empty folder.
InitRate == Init /\ docs = <<>>

SpecRate == InitRate /\ [][NextRate]_vars

----------------------------------------------------------------------------
(* Lines 32-34 of embed_and_store in several processes: each opens the     *)
(* artifact path for writing, which truncates it, and writes its stream in *)
(* two blocks at its own file offset                                       *)

RECURSIVE Loaded(_)
\* text_chunks after j load_and_split_docs calls on a fresh engine.
Loaded(j) == IF j = 0 THEN <<>> ELSE ExtendAll(Loaded(j - 1), Glob(docs))

\* What a process is about to pickle after j loads and lines 27-30.
StreamOf(j) == Dump(BuiltIndex(Loaded(j)), Enumerate(Loaded(j)))

\* Bytes of a file that were never written: a write past the end leaves a
\* hole of zeros.
Hole == << 0 >>

\* The file after a write of block at offset pos.
WriteAt(bytes, pos, block) ==
    LET end == pos + Len(block)
        len == IF Len(bytes) > end THEN Len(bytes) ELSE end
    IN  [i \in 1..len |->
            IF i > pos /\ i <= end THEN block[i - pos]
            ELSE IF i <= Len(bytes) THEN bytes[i]
            ELSE Hole]

\* Engines over a folder of one text file with text in it; each process has
\* loaded it once or more and reached line 32.
InitWriters ==
    /\ docs \in ListingsOf(1)
    /\ AllDecodable(Glob(docs))
    /\ Loaded(1) # <<>>
    /\ index = NoneIndex
    /\ text_chunks = <<>>
    /\ id_to_text = EmptyDict
    /\ artifact = NoFile
    /\ loads = 0
    /\ ret = Returned("__init__")
    /\ saved = [index |-> NoneIndex, id_to_text |-> EmptyDict]
    /\ prior = Snapshot(NoneIndex)
    /\ app = AppIdle
    /\ calls = NoCalls
    /\ uploads = {}
    /\ http = NoRequest
    /\ clients = NoClients
    /\ now = 0
    /\ admitted = NoClients
    /\ dispatched = NoDispatch
    /\ \E j \in [Writers -> 1..MaxLoads] :
          writers = [w \in Writers |->
                        [pc |-> "l32", stream |-> StreamOf(j[w]), pos |-> 0]]

\* Mutant of writer_open: a process waits while another has the file open.
writer_open_locked(w) ==
    /\ writers[w].pc = "l32"
    /\ \A u \in Writers \ {w} : writers[u].pc \in {"l32", "done"}
    /\ artifact' = FileOf(<<>>)
    /\ writers' = [writers EXCEPT ![w].pc = "l34"]
    /\ UNCHANGED <<docs, index, text_chunks, id_to_text, loads, ret, saved,
                   prior, app, calls, uploads, http, clients, now, admitted,
                   dispatched>>

\* Line 33: open(save_path, "wb").
writer_open(w) ==
    /\ writers[w].pc = "l32"
    /\ artifact' = FileOf(<<>>)
    /\ writers' = [writers EXCEPT ![w].pc = "l34"]
    /\ UNCHANGED <<docs, index, text_chunks, id_to_text, loads, ret, saved,
                   prior, app, calls, uploads, http, clients, now, admitted,
                   dispatched>>

\* Line 34: pickle.dump writes the next block, the first half of the stream
\* and then the rest; the file is closed after the second.
writer_write(w) ==
    /\ writers[w].pc = "l34"
    /\ LET stream == writers[w].stream
           pos == writers[w].pos
           end == IF pos = 0 THEN Len(stream) \div 2 ELSE Len(stream)
       IN  /\ artifact' = FileOf(WriteAt(artifact.bytes, pos,
                                         SubSeq(stream, pos + 1, end)))
           /\ writers' = [writers EXCEPT
                             ![w].pos = end,
                             ![w].pc = IF end = Len(stream) THEN "done" ELSE "l34"]
    /\ UNCHANGED <<docs, index, text_chunks, id_to_text, loads, ret, saved,
                   prior, app, calls, uploads, http, clients, now, admitted,
                   dispatched>>

NextWriters ==
    \E w \in Writers :
        \/ writer_open(w)
        \/ writer_write(w)

SpecWriters == InitWriters /\ [][NextWriters]_vars

----------------------------------------------------------------------------
(* Properties *)

Built == ~index.isNone

AllTxt(listing) == \A i \in 1..Len(listing) : listing[i].ext = "txt"

CeilDiv(n, d) == (n + d - 1) \div d

\* Number of chunks the claim expects of the i-th file of the folder.
ChunkCount(i) == CeilDiv(Len(docs[i].text), 300)

RECURSIVE Offset(_)
\* Number of chunks expected of the files before the i-th.
Offset(i) == IF i <= 1 THEN 0 ELSE Offset(i - 1) + ChunkCount(i - 1)

\* C1: after one load_and_split_docs call on a fresh engine over a folder of
\* text files, file i contributed exactly ceil(len(file_i)/300) chunks (none
\* when empty), in file-processing order, and the chunks concatenated in
\* order give the file contents concatenated.
C1_ChunksPerFile ==
    (loads = 1 /\ AllTxt(docs) /\ AllDecodable(docs)) =>
        /\ Len(text_chunks) = Offset(Len(docs) + 1)
        /\ \A i \in 1..Len(docs) :
              Concat(SubSeq(text_chunks, Offset(i) + 1, Offset(i) + ChunkCount(i)))
                  = docs[i].text
        /\ Concat(text_chunks) = ConcatTexts(docs)

C1_Witness ==
    /\ loads = 1
    /\ AllTxt(docs)
    /\ Len(docs) = 2
    /\ Len(docs[1].text) = 650
    /\ Len(docs[2].text) = 0
    /\ Len(text_chunks) = 3

\* The chunk is text[o:o+len(chunk)] of the file for an offset o that is a
\* multiple of 300, and it either is 300 long or ends where the file ends.
ChunkOfFile(chunk, text) ==
    \E m \in 0..(Len(text) \div 300) : LET o == 300 * m IN
        /\ o + Len(chunk) <= Len(text)
        /\ SubSeq(text, o + 1, o + Len(chunk)) = chunk
        /\ (Len(chunk) = 300 \/ o + Len(chunk) = Len(text))

\* C2: every chunk of text_chunks is non-empty, is exactly 300 long unless it
\* is the last chunk of its file (then 1..300 long), and is a contiguous
\* piece of one single file of the folder, starting at a multiple of 300.
C2_ChunkShape ==
    \A c \in 1..Len(text_chunks) :
        /\ Len(text_chunks[c]) \in 1..300
        /\ \E i \in 1..Len(docs) : ChunkOfFile(text_chunks[c], docs[i].text)

C2_Witness ==
    /\ loads = 2
    /\ Len(docs) = 2
    /\ Len(text_chunks) = 8
    /\ Len(text_chunks[3]) = 50
    /\ Len(text_chunks[4]) = 300

\* C3: after a successful embed_and_store over n chunks the dict has exactly
\* the keys 0..n-1 and id_to_text[i] is the i-th chunk (0-based).
C3_IdsInInputOrder ==
    (ret.op = "embed_and_store" /\ ret.err = NoErr) =>
        /\ DOMAIN id_to_text = 0..(Len(text_chunks) - 1)
        /\ \A i \in 0..(Len(text_chunks) - 1) : id_to_text[i] = text_chunks[i + 1]

C3_Witness ==
    /\ ret.op = "embed_and_store"
    /\ ret.err = NoErr
    /\ Len(text_chunks) >= 4
    /\ id_to_text[3] # id_to_text[0]

\* As many vectors as dict entries, and vector i embeds id_to_text[i].
CoIndexed(idx, map) ==
    /\ Cardinality(DOMAIN map) = NTotal(idx)
    /\ \A i \in 0..(NTotal(idx) - 1) :
          /\ i \in DOMAIN map
          /\ idx.xb[i + 1] = Encode(map[i])

ArtifactComplete == artifact.exists /\ WellFormed(artifact.bytes)

\* C4: in every Built state the index and the dict are co-indexed, and so is
\* the pair held by every complete artifact.
C4_CoIndexed ==
    /\ Built => CoIndexed(index, id_to_text)
    /\ ArtifactComplete =>
          LET pair == Load(artifact.bytes) IN CoIndexed(pair[1], pair[2])

C4_Witness ==
    /\ Built
    /\ ret.op = "load_index"
    /\ ret.err = NoErr
    /\ NTotal(index) >= 4
    /\ Len(text_chunks) = 3
    /\ ArtifactComplete

\* Distance of the last query to stored chunk i, from the texts.
SearchDist(i) == L2sqr(Encode(ret.query), Encode(id_to_text[i]))

Nearer(i, j) ==
    \/ SearchDist(i) < SearchDist(j)
    \/ (SearchDist(i) = SearchDist(j) /\ i < j)

\* C5: in a Built engine holding m >= k chunks, search(query, k) returns k
\* texts: the j-th is the text of the chunk with exactly j-1 chunks nearer
\* to the query, nearer meaning a smaller L2 distance or an equal distance
\* and a lower identifier.
C5_TopKOrdered ==
    (ret.op = "search" /\ Built /\ NTotal(index) >= ret.top_k) =>
        /\ ret.err = NoErr
        /\ Len(ret.val) = ret.top_k
        /\ \A j \in 1..ret.top_k :
              \E i \in DOMAIN id_to_text :
                  /\ Cardinality({ b \in DOMAIN id_to_text : Nearer(b, i) }) = j - 1
                  /\ ret.val[j] = id_to_text[i]

\* A search whose two results are different chunks at equal distance, with a
\* third chunk at that distance left out.
C5_Witness ==
    /\ ret.op = "search"
    /\ ret.err = NoErr
    /\ ret.top_k = 2
    /\ NTotal(index) >= 4
    /\ Len(ret.val) = 2
    /\ ret.val[1] # ret.val[2]
    /\ \E i, j, l \in DOMAIN id_to_text :
          /\ i < j /\ j < l
          /\ ret.val[1] = id_to_text[i]
          /\ ret.val[2] = id_to_text[j]
          /\ SearchDist(i) = SearchDist(j)
          /\ SearchDist(j) = SearchDist(l)

\* Number of positions of the sequence (or dict) that hold x.
Occurrences(f, x) == Cardinality({ i \in DOMAIN f : f[i] = x })

\* C6: in a Built engine holding m < k chunks, search(query, k) raises
\* nothing and returns m texts: every stored chunk, each as often as it is
\* stored, nothing for the -1 labels.
C6_FewerThanK ==
    (ret.op = "search" /\ Built /\ NTotal(index) < ret.top_k) =>
        /\ ret.err = NoErr
        /\ Len(ret.val) = NTotal(index)
        /\ \A i \in DOMAIN id_to_text :
              Occurrences(ret.val, id_to_text[i])
                  = Occurrences(id_to_text, id_to_text[i])

C6_Witness ==
    /\ ret.op = "search"
    /\ Built
    /\ NTotal(index) = 1
    /\ ret.top_k = 3
    /\ Len(ret.val) = 1

\* C7: an engine that has just loaded the artifact holds the index and the
\* dict that the storing engine held when it wrote it, and every search on
\* it gives what the same search gave on the storing engine.
C7_RoundTrip ==
    (ret.op = "load_index" /\ ret.err = NoErr) =>
        /\ index = saved.index
        /\ id_to_text = saved.id_to_text
        /\ \A query \in Queries, top_k \in 1..MaxK :
              SearchOutcome(index, id_to_text, query, top_k)
                  = SearchOutcome(saved.index, saved.id_to_text, query, top_k)

\* A fresh engine that loaded an artifact of four chunks.
C7_Witness ==
    /\ ret.op = "load_index"
    /\ ret.err = NoErr
    /\ loads = 0
    /\ text_chunks = <<>>
    /\ NTotal(index) = 4
    /\ id_to_text[3] # id_to_text[0]

\* C8: search on an Unbuilt engine fails with IndexNotLoadedError.
C8_UnbuiltSearchTyped ==
    (ret.op = "search" /\ ~Built) =>
        /\ ret.err = "IndexNotLoadedError"
        /\ ret.val = <<>>

\* C9 as claimed: an engine becomes Built only by a successful
\* embed_and_store or load_index, and a Built engine stays Built.
C9_OnlySuccessBuilds ==
    [][ ret'.op # "__init__" =>
          /\ (~Built /\ Built') =>
                 /\ ret'.op \in {"embed_and_store", "load_index"}
                 /\ ret'.err = NoErr
          /\ Built => Built' ]_vars

\* C9 amended: an engine becomes Built only by an embed_and_store over at
\* least one chunk (whether or not its artifact write then succeeds) or by a
\* successful load_index, and a Built engine stays Built under every call.
C9_Lifecycle ==
    [][ ret'.op # "__init__" =>
          /\ (~Built /\ Built') =>
                 \/ (ret'.op = "embed_and_store" /\ text_chunks # <<>>)
                 \/ (ret'.op = "load_index" /\ ret'.err = NoErr)
          /\ Built => Built' ]_vars

\* An engine made Built by an embed_and_store that raised, no artifact
\* having ever been written in full.
C9_Witness ==
    /\ Built
    /\ ret.op = "embed_and_store"
    /\ ret.err = "OSError"
    /\ saved.index.isNone

\* C10: embed_and_store with no chunks fails with EmptyCorpusError and
\* leaves index, id_to_text and the artifact as they were.
C10_EmptyBuildTyped ==
    [][ (text_chunks = <<>> /\ ret'.op = "embed_and_store") =>
          /\ ret'.err = "EmptyCorpusError"
          /\ UNCHANGED <<index, id_to_text, artifact>> ]_vars

\* C11: a successful embed_and_store on an engine that was already Built
\* leaves an index holding exactly one vector per current chunk, in chunk
\* order, and a dict holding exactly the current chunks by position: nothing
\* of the index it held before (built or loaded) remains.
C11_RebuildReplaces ==
    (ret.op = "embed_and_store" /\ ret.err = NoErr /\ prior.built) =>
        /\ NTotal(index) = Len(text_chunks)
        /\ \A i \in 1..Len(text_chunks) : index.xb[i] = Encode(text_chunks[i])
        /\ id_to_text = [i \in 0..(Len(text_chunks) - 1) |-> text_chunks[i + 1]]

\* An engine that loaded an index of eight vectors, then split the folder
\* once and rebuilt over its four chunks.
C11_Witness ==
    /\ ret.op = "embed_and_store"
    /\ ret.err = NoErr
    /\ prior.built
    /\ prior.ntotal = 8
    /\ loads = 1
    /\ NTotal(index) = 4

\* What one load_and_split_docs call on a fresh engine appends.
SingleLoad == ExtendAll(<<>>, Glob(docs))

\* C12: after j load_and_split_docs calls on the unchanged folder,
\* text_chunks is the single-call chunk sequence (n chunks) repeated j times,
\* and a successful embed_and_store then indexes j*n vectors with
\* identifiers i and i + r*n mapped to the same text.
C12_LoadsAccumulate ==
    LET n == Len(SingleLoad) IN
        /\ Len(text_chunks) = loads * n
        /\ \A r \in 0..(loads - 1) : \A i \in 1..n :
              text_chunks[r * n + i] = SingleLoad[i]
        /\ (ret.op = "embed_and_store" /\ ret.err = NoErr) =>
              /\ NTotal(index) = loads * n
              /\ \A r \in 0..(loads - 1) : \A i \in 0..(n - 1) :
                    id_to_text[r * n + i] = id_to_text[i]

\* Two loads of a four-chunk folder, then a build of eight vectors.
C12_Witness ==
    /\ loads = 2
    /\ ret.op = "embed_and_store"
    /\ ret.err = NoErr
    /\ Len(SingleLoad) = 4
    /\ NTotal(index) = 8
    /\ id_to_text[4] = id_to_text[0]
    /\ id_to_text[1] # id_to_text[0]

\* C13: load_index on a missing, truncated or corrupt artifact fails with
\* PersistenceError.
C13_LoadFailureTyped ==
    (ret.op = "load_index" /\ ~ArtifactComplete) => ret.err = "PersistenceError"

\* C14: every embed_and_store call, failed ones included, leaves at the
\* artifact path either the file that was there before or the complete new
\* (index, mapping) pair.
C14_AtomicWrite ==
    [][ ret'.op = "embed_and_store" =>
          \/ artifact' = artifact
          \/ /\ artifact'.exists
             /\ WellFormed(artifact'.bytes)
             /\ Load(artifact'.bytes) = <<index', id_to_text'>> ]_vars

RECURSIVE BeforeUndecodable(_)
\* The files of the sequence that come before its first undecodable one.
BeforeUndecodable(files) ==
    IF files = <<>> \/ ~Head(files).utf8 THEN <<>>
    ELSE <<Head(files)>> \o BeforeUndecodable(Tail(files))

\* C15: load_and_split_docs over a folder with an undecodable matched file
\* fails with CorpusReadError, having appended the chunks of the files
\* before it and nothing of that file or of any later one.
C15_ReadFailureTyped ==
    [][ (ret'.op = "load_and_split_docs" /\ ~AllDecodable(Glob(docs))) =>
          /\ ret'.err = "CorpusReadError"
          /\ Concat(text_chunks') =
                Concat(text_chunks) \o ConcatTexts(BeforeUndecodable(Glob(docs))) ]_vars

\* C18: a core operation whose work failed has raised: a load over an
\* undecodable file, a build over no chunks or one that did not leave the
\* complete new artifact, a load_index without a complete artifact to read,
\* a search without an index.  And a search that returned normally returned
\* at least one chunk.
C18_FailuresRaise ==
    /\ (ret.op = "load_and_split_docs" /\ ~AllDecodable(Glob(docs)))
          => ret.err # NoErr
    /\ (ret.op = "embed_and_store" /\ text_chunks = <<>>) => ret.err # NoErr
    /\ (ret.op = "embed_and_store" /\ ~ArtifactComplete) => ret.err # NoErr
    /\ (ret.op = "embed_and_store" /\ ArtifactComplete
           /\ Load(artifact.bytes) # <<index, id_to_text>>) => ret.err # NoErr
    /\ (ret.op = "load_index" /\ ~ArtifactComplete) => ret.err # NoErr
    /\ (ret.op = "search" /\ ~Built) => ret.err # NoErr
    /\ (ret.op = "search" /\ ret.err = NoErr) => Len(ret.val) >= 1

\* A search that raised on an engine that split its folder and never built
\* or loaded an index.
C18_Witness ==
    /\ ret.op = "search"
    /\ ~Built
    /\ text_chunks # <<>>
    /\ ret.err # NoErr
    /\ ret.val = <<>>

\* C17: a request whose rag.search raised went on with an empty context,
\* built the prompt with it, and reached the model step.
C17_RetrievalFailureTolerated ==
    (app.req = "done" /\ app.searched /\ app.search_err # NoErr) =>
        /\ app.context = <<>>
        /\ app.prompt.built
        /\ app.prompt.domain_knowledge = <<>>
        /\ app.model_step
        /\ app.result # "Feature generation failed"

\* A request served by a process whose start-up load_index failed: the
\* search raised and the model still answered with suggestions.
C17_Witness ==
    /\ app.started
    /\ ~Built
    /\ app.req = "done"
    /\ app.search_err = "AttributeError"
    /\ app.prompt.built
    /\ app.result = "suggestions"

\* C19: the shared engine gets its index at start-up, by load_index, or
\* never; once the process has started every call on the engine is a search
\* and its index, dict and chunk list stay as start-up left them, whatever
\* requests are served and whenever the build script runs.
C19_NoBuildOnRequestPath ==
    [][ /\ (~app.started /\ app'.started) => ret'.op = "load_index"
        /\ app.started =>
              /\ UNCHANGED <<index, id_to_text, text_chunks>>
              /\ ret' # ret => ret'.op = "search" ]_vars

\* The build script wrote a complete artifact after the process had started
\* without one; the request after it still searched an engine with no index.
C19_Witness ==
    /\ app.started
    /\ ~Built
    /\ ArtifactComplete
    /\ app.req = "done"
    /\ ret.op = "search"
    /\ ret.err = "AttributeError"

\* C16: two finished search calls with the same query and top_k on the
\* same index, whatever other searches ran between or beside them, returned
\* the same outcome: the same chunks in the same order.
C16_SearchDeterministic ==
    \A t, u \in Threads :
        (/\ calls[t].pc = "done" /\ calls[u].pc = "done"
         /\ calls[t].query = calls[u].query
         /\ calls[t].top_k = calls[u].top_k) => calls[t].out = calls[u].out

\* Two finished calls with the same query and top_k on an index of at least
\* four vectors, two different chunks returned.
C16_Witness ==
    /\ Built
    /\ NTotal(index) >= 4
    /\ calls[1].pc = "done" /\ calls[2].pc = "done"
    /\ calls[1].query = calls[2].query
    /\ calls[1].top_k = 2 /\ calls[2].top_k = 2
    /\ Len(calls[1].out.val) = 2
    /\ calls[1].out.val[1] # calls[1].out.val[2]

\* C20: no step of a search call changes index, id_to_text or text_chunks,
\* and under every interleaving each call that finishes holds the outcome
\* the call gives when it runs alone on that engine.
C20_SearchReadOnly ==
    [][ /\ UNCHANGED <<index, id_to_text, text_chunks>>
        /\ \A t \in Threads :
              calls'[t].pc = "done" =>
                  calls'[t].out = SearchOutcome(index, id_to_text,
                                                calls'[t].query, calls'[t].top_k) ]_vars

\* One call finished while another, with a different query, is between
\* lines 45 and 46.
C20_Witness ==
    /\ Built
    /\ NTotal(index) >= 4
    /\ calls[1].pc = "done"
    /\ calls[1].out.err = NoErr
    /\ calls[2].pc = "l46"
    /\ calls[2].query # calls[1].query
    /\ calls[2].labels # <<>>

\* C28: a load_index that raised left index and id_to_text as they were
\* before the call, and no load_index, failed or not, touches text_chunks.
C28_FailedLoadKeepsState ==
    [][ ret'.op = "load_index" =>
          /\ UNCHANGED text_chunks
          /\ ret'.err # NoErr => UNCHANGED <<index, id_to_text>> ]_vars

\* A Built engine of eight vectors whose load_index raised on a
\* half-written artifact.
C28_Witness ==
    /\ ret.op = "load_index"
    /\ ret.err # NoErr
    /\ artifact.exists
    /\ prior.built
    /\ Built
    /\ NTotal(index) = 8
    /\ text_chunks # <<>>

ErrorMessages ==
    {"Model not initialized", "Invalid response from Gemini API",
     "Empty response from Gemini API", "Gemini returned invalid JSON",
     "Gemini API call failed", "Feature generation failed"}

\* C22: every suggest_features call returned; it returned a one-dict error
\* list whenever the model was None, the model call raised, the text was
\* missing, None or empty, or the text was not JSON (with or without a
\* bracketed fragment); and it returned parsed suggestions only when a JSON
\* parse succeeded.
C22_SuggestNeverRaises ==
    app.req = "done" =>
        /\ app.result \in ErrorMessages \cup {"suggestions"}
        /\ (app.model_step /\ app.model = "none") => app.result \in ErrorMessages
        /\ app.reply \in {"raises", "no_text_attr", "none_text", "empty",
                          "wrapped_bad_json", "no_json"}
              => app.result \in ErrorMessages
        /\ app.result = "suggestions" =>
              /\ app.model = "gemini"
              /\ app.reply \in {"json", "wrapped_json"}

\* A request whose reply held no JSON at all, answered with the error list.
C22_Witness ==
    /\ app.req = "done"
    /\ app.model = "gemini"
    /\ app.reply = "no_json"
    /\ app.result = "Gemini returned invalid JSON"

\* The upload fails one of the validations of upload_csv.
Invalid(u) ==
    \/ u.size > MAX_FILE_SIZE
    \/ FileExt(u.filename) # "csv"
    \/ u.content \in {"no_data", "header_only", "garbage"}

\* C23: an upload that is too large is answered 413, and one with another
\* extension, with no data or only a header, or that does not parse as CSV
\* is answered 400; no such upload changes the upload directory, and the
\* directory changes only for an upload that passed every validation.
C23_UploadValidatedFirst ==
    [][ http'.route = "/upload/" =>
          /\ Invalid(http'.upload) =>
                /\ http'.status = IF http'.upload.size > MAX_FILE_SIZE
                                  THEN 413 ELSE 400
                /\ UNCHANGED uploads
          /\ uploads' # uploads => ~Invalid(http'.upload) ]_vars

\* A header-only CSV answered 400 while an earlier upload is in the
\* directory and this one is not.
C23_Witness ==
    /\ http.route = "/upload/"
    /\ http.status = 400
    /\ http.upload.content = "header_only"
    /\ FileExt(http.upload.filename) = "csv"
    /\ uploads # {}
    /\ http.upload.filename \notin uploads

\* C24: a feature-suggestions request for a file that is not in the upload
\* directory is answered 404, and the step changes nothing of the engine or
\* of the feature engine: no search and no model call were made.
C24_MissingFileIs404 ==
    [][ (http'.route = "/feature-suggestions/" /\ http'.filename \notin uploads') =>
          /\ http'.status = 404
          /\ UNCHANGED <<app, ret, prior, index, id_to_text, text_chunks>> ]_vars

\* A 404 for a name that was never uploaded, on a process that has served
\* a request for an uploaded file before.
C24_Witness ==
    /\ http.route = "/feature-suggestions/"
    /\ http.status = 404
    /\ http.filename \notin uploads
    /\ uploads # {}
    /\ app.req = "done"
    /\ app.path \in uploads

\* The step is a dispatch (the clock stands still) of a request to a path
\* other than /health.
Limited == now' = now /\ dispatched'.path # "/health"

\* C25: for every client, at every moment, at most calls_per_minute
\* forwarded requests to paths other than /health have timestamps less
\* than 60 s old, which bounds every 60-second window; and a request that
\* arrives when calls_per_minute such timestamps exist is answered 429 and
\* not forwarded.
C25_RateBound ==
    [][ /\ \A ip \in ClientIPs : Len(admitted'[ip]) <= calls_per_minute
        /\ (Limited /\ Len(admitted[dispatched'.ip]) >= calls_per_minute) =>
              /\ dispatched'.status = 429
              /\ ~dispatched'.forwarded
              /\ UNCHANGED admitted ]_vars

\* A client answered 429 with a full window, after time has passed.
C25_Witness ==
    /\ dispatched.status = 429
    /\ ~dispatched.forwarded
    /\ now >= 45
    /\ Len(admitted[dispatched.ip]) = calls_per_minute
    /\ admitted[dispatched.ip][1] < now

\* C26: a request to /health is forwarded whatever the client's record,
\* and it changes no client's recorded timestamps.
C26_HealthExempt ==
    [][ (now' = now /\ dispatched'.path = "/health") =>
          /\ dispatched'.forwarded
          /\ dispatched'.status = 200
          /\ UNCHANGED <<clients, admitted>> ]_vars

\* A health check forwarded for a client that was answered 429 just before.
C26_Witness ==
    /\ dispatched.path = "/health"
    /\ dispatched.forwarded
    /\ dispatched.streak >= 1
    /\ Len(Fresh(clients[dispatched.ip], now)) = calls_per_minute

\* C27: a request answered 429 adds nothing to the client's recorded
\* timestamps, and a request from a client whose oldest recorded timestamp
\* is at least 60 s old is forwarded, however many requests were rejected
\* before it.
C27_RejectedNotRecorded ==
    [][ Limited =>
          LET ip == dispatched'.ip IN
              /\ dispatched'.status = 429 =>
                    clients'[ip] = Fresh(clients[ip], now)
              /\ (clients[ip] # <<>> /\ now - clients[ip][1] >= Window) =>
                    dispatched'.forwarded ]_vars

\* A client forwarded again right after two rejections, its record full
\* once more.
C27_Witness ==
    /\ dispatched.path # "/health"
    /\ dispatched.forwarded
    /\ dispatched.streak = 2
    /\ Len(clients[dispatched.ip]) = calls_per_minute
    /\ clients[dispatched.ip][1] < now

\* The artifact begins with the whole stream of process w: a load_index
\* reads that process's pair.
HoldsPairOf(w) ==
    /\ Len(artifact.bytes) >= Len(writers[w].stream)
    /\ SubSeq(artifact.bytes, 1, Len(writers[w].stream)) = writers[w].stream

\* C21: embed_and_store takes no lock on the artifact path: a process at
\* line 32 can open the file, and so truncate it, whatever the other
\* processes are doing, one of them being in the middle of its write
\* included.
C21_NoWriteLock ==
    \A w \in Writers : writers[w].pc = "l32" => ENABLED writer_open(w)

\* Both processes have finished writing different streams and the artifact
\* holds the complete pair of neither.
C21_Witness ==
    /\ \A w \in Writers : writers[w].pc = "done"
    /\ writers[1].stream # writers[2].stream
    /\ \A w \in Writers : ~HoldsPairOf(w)
    /\ ~WellFormed(artifact.bytes)

====
